---- MODULE Spec2Model ----
(***************************************************************************)
(* Model of disaster_dashboard.py: the ingestion of the spreadsheet files  *)
(* into one record per jurisdiction (load_and_process_data, cached by      *)
(* st.cache_data) and the session state of the dashboard script (filters,  *)
(* map click, aggregates).                                                 *)
(*                                                                         *)
(* Text is modelled as a sequence of tokens: " " is a run of whitespace,   *)
(* every other token is a run of non-whitespace text (a token such as      *)
(* "Iowa, etc." stands for itself).  The empty string is <<>>.  A          *)
(* spreadsheet cell is either missing (NaN) or holds a text.               *)
(***************************************************************************)
EXTENDS Integers, Sequences, FiniteSets, TLC

VARIABLES
    disk,                \* names of the *.xlsx files in the working directory
    cached,              \* st.cache_data holds a result for load_and_process_data()
    cache,               \* the table st.cache_data holds
    pc,                  \* position of the script run
    excel_files,         \* the files of glob.glob("*.xlsx") the for loop has not
                         \* finished; the first is the one it is at
    cols,                \* df.columns of the file being processed
    rowsLeft,            \* rows of that file not yet iterated
    budget,              \* rows the files not yet opened may hold (input bound)
    state_data,          \* the defaultdict, as its entries in insertion order
    df,                  \* the table load_and_process_data returned to the script
    selected_state,      \* st.session_state.selected_state
    filter_data_type,    \* st.session_state.filter_data_type
    filter_region,       \* st.session_state.filter_region
    filtered_df,         \* the filtered view the last script run rendered
    total_states,        \* the "US States" metric the last script run showed
    hist                 \* history of the run (what was globbed, merged, clicked)

vars == <<disk, cached, cache, pc, excel_files, cols, rowsLeft, budget, state_data,
          df, selected_state, filter_data_type, filter_region, filtered_df,
          total_states, hist>>

ingestVars == <<excel_files, cols, rowsLeft, budget, state_data>>
sessionVars == <<selected_state, filter_data_type, filter_region>>
viewVars == <<filtered_df, total_states>>

-----------------------------------------------------------------------------
(* Bounds of the model *)

MaxFiles == 2
MaxRows == 2

-----------------------------------------------------------------------------
(* Text and cells *)

WS == " "
EmptyStr == <<>>

NaN == [na |-> TRUE, s |-> <<>>]
Txt(s) == [na |-> FALSE, s |-> s]

\* pd.notna(x)
notna(c) == ~c.na

\* str(x): NaN prints as the text nan
str(c) == IF c.na THEN <<"nan">> ELSE c.s

RECURSIVE lstrip(_)
lstrip(s) == IF s # <<>> /\ Head(s) = WS THEN lstrip(Tail(s)) ELSE s

RECURSIVE rstrip(_)
rstrip(s) ==
    IF s # <<>> /\ s[Len(s)] = WS THEN rstrip(SubSeq(s, 1, Len(s) - 1)) ELSE s

\* s.strip()
strip(s) == rstrip(lstrip(s))

\* Python truth value of a string
truthy(s) == s # <<>>

Range(s) == {s[i] : i \in DOMAIN s}

-----------------------------------------------------------------------------
(* Column headers *)

\* A header of df.columns: a text, or (isstr = FALSE) a number or date that
\* pandas keeps as a non-string column label.
Hdr(s) == [isstr |-> TRUE, s |-> s]
NumHdr == [isstr |-> FALSE, s |-> <<"2020">>]

\* str.lower() on one token
LowerTok(w) ==
    CASE w = "State" -> "state"
      [] w = "Jurisdiction" -> "jurisdiction"
      [] w = "Territory" -> "territory"
      [] w = "Notes" -> "notes"
      [] w = "Key" -> "key"
      [] w = "Statutes" -> "statutes"
      [] w = "Mitigation" -> "mitigation"
      [] w = "Planning" -> "planning"
      [] w = "Equity" -> "equity"
      [] w = "Programs" -> "programs"
      [] w = "Civil" -> "civil"
      [] w = "Rights" -> "rights"
      [] w = "Vulnerable" -> "vulnerable"
      [] w = "Population" -> "population"
      [] w = "Protections" -> "protections"
      [] w = "Language" -> "language"
      [] w = "Access" -> "access"
      [] w = "Disability" -> "disability"
      [] w = "Needs" -> "needs"
      [] w = "Emergency" -> "emergency"
      [] w = "Declaration" -> "declaration"
      [] OTHER -> w

\* s.lower()
lower(s) == [i \in DOMAIN s |-> LowerTok(s[i])]

\* k is a substring of the token w, for the tokens of the modelled headers
TokHas(w, k) ==
    \/ w = k
    \/ <<w, k>> \in {<<"statutes", "statute">>, <<"protections", "protection">>}

\* kw in s (Python substring test), kw and s token sequences
contains(kw, s) ==
    \E i \in 1..(Len(s) - Len(kw) + 1) :
        \A j \in 1..Len(kw) : TokHas(s[i + j - 1], kw[j])

NoField == "none"

\* lines 147-179: the elif cascade of the column loop; the first rule that
\* matches decides the topic field of the column
Classify(col_lower) ==
    IF contains(<<"statute">>, col_lower) \/ contains(<<"code">>, col_lower)
        THEN "key_statutes"
    ELSE IF contains(<<"local", WS, "authority">>, col_lower)
        THEN "local_authority"
    ELSE IF contains(<<"notable", WS, "provision">>, col_lower)
        THEN "notable_provisions"
    ELSE IF contains(<<"vulnerable">>, col_lower) /\ contains(<<"protection">>, col_lower)
        THEN "vulnerable_protections"
    ELSE IF contains(<<"civil", WS, "rights">>, col_lower)
                \/ contains(<<"discrimination">>, col_lower)
        THEN "civil_rights"
    ELSE IF contains(<<"disability">>, col_lower) \/ contains(<<"functional">>, col_lower)
        THEN "disability_needs"
    ELSE IF contains(<<"language", WS, "access">>, col_lower)
        THEN "language_access"
    ELSE IF contains(<<"equity">>, col_lower)
        THEN "equity_initiatives"
    ELSE IF contains(<<"emergency", WS, "declaration">>, col_lower)
        THEN "emergency_declaration"
    ELSE IF contains(<<"mitigation">>, col_lower)
        THEN "mitigation_planning"
    ELSE IF contains(<<"mutual", WS, "aid">>, col_lower)
        THEN "mutual_aid"
    ELSE NoField

\* line 120: the test of the state column search
IsStateHeader(col) ==
    \/ contains(<<"state">>, lower(col.s))
    \/ contains(<<"territory">>, lower(col.s))
    \/ contains(<<"jurisdiction">>, lower(col.s))

Raises == 0 - 1

\* lines 118-122: index of the state column, 0 for None, Raises when
\* col.lower() is called on a header that is not a string
RECURSIVE FindStateCol(_, _)
FindStateCol(columns, i) ==
    IF i > Len(columns) THEN 0
    ELSE IF ~columns[i].isstr THEN Raises
    ELSE IF IsStateHeader(columns[i]) THEN i
    ELSE FindStateCol(columns, i + 1)

-----------------------------------------------------------------------------
(* Records *)

data_fields ==
    <<"key_statutes", "local_authority", "notable_provisions",
      "vulnerable_protections", "civil_rights", "disability_needs",
      "language_access", "equity_initiatives", "emergency_declaration",
      "mitigation_planning", "mutual_aid">>

Frac(n, d) == [num |-> n, den |-> d]
FracEq(a, b) == a.num * b.den = b.num * a.den

\* lines 88-103: the default entry of the defaultdict
DefaultEntry ==
    [state |-> EmptyStr,
     key_statutes |-> EmptyStr,
     local_authority |-> EmptyStr,
     notable_provisions |-> EmptyStr,
     vulnerable_protections |-> EmptyStr,
     civil_rights |-> EmptyStr,
     disability_needs |-> EmptyStr,
     language_access |-> EmptyStr,
     equity_initiatives |-> EmptyStr,
     emergency_declaration |-> EmptyStr,
     mitigation_planning |-> EmptyStr,
     mutual_aid |-> EmptyStr,
     data_availability |-> Frac(0, 1),
     region |-> "Unknown"]

\* lines 106-110
state_mapping ==
    (<<"Iowa,", WS, "etc.">> :> <<"Iowa">>)
    @@ (<<"Others">> :> <<"Wisconsin">>)
    @@ (<<"Guam,", WS, "USVI,", WS, "American", WS, "Samoa,", WS, "Northern",
         WS, "Mariana", WS, "I...">> :> <<"Guam">>)

\* lines 128-132: the jurisdiction name of a row
StateName(cell) ==
    LET state_name == strip(str(cell))
    IN  IF state_name \in DOMAIN state_mapping
            THEN state_mapping[state_name]
            ELSE state_name

\* line 135: the rows the loop skips
NonStateEntries ==
    {<<"nan">>, <<"Approach">>, <<"Aspect">>, <<"Impact", WS, "Area">>,
     <<"Protection", WS, "Area">>, <<"Region">>}

SkipsNothing(state_name) == FALSE

IsSkipped(state_name) == ~truthy(state_name) \/ state_name \in NonStateEntries

\* the guard `if value and value != 'nan'` of every branch of the cascade
WritesAlways(value) == TRUE

Writes(value) == truthy(value) /\ value # <<"nan">>

\* lines 143-179: the column loop of one row, from column i on.  raised:
\* col.lower() on a non-string header raised; the entry keeps what the
\* columns before it wrote (state_entry is updated in place).
RECURSIVE MapColumns(_, _, _, _)
MapColumns(state_entry, columns, row, i) ==
    IF i > Len(columns) THEN [entry |-> state_entry, raised |-> FALSE]
    ELSE IF ~columns[i].isstr THEN [entry |-> state_entry, raised |-> TRUE]
    ELSE LET col_lower == lower(columns[i].s)
             value == IF notna(row[i]) THEN str(row[i]) ELSE EmptyStr
             field == Classify(col_lower)
         IN  MapColumns(IF field # NoField /\ Writes(value)
                            THEN [state_entry EXCEPT ![field] = value]
                            ELSE state_entry,
                        columns, row, i + 1)

\* line 189: the test of one field in the count of filled fields
IsFilled(v) == truthy(v) /\ truthy(strip(v)) /\ v # <<"nan">>

filled_fields(state_entry) ==
    Cardinality({i \in DOMAIN data_fields : IsFilled(state_entry[data_fields[i]])})

\* lines 181-190
WithAvailability(state_entry) ==
    [state_entry EXCEPT
        !.data_availability = Frac(filled_fields(state_entry), Len(data_fields))]

\* lines 192-206: the region the file name implies; NoRegion when no branch
\* of the cascade matches (the entry's region is then left as it is)
NoRegion == "none"

startswith(file, tok) == file # <<>> /\ file[1] = tok
infile(tok, file) == tok \in Range(file)

FileRegion(file) ==
    IF startswith(file, "CA-WA-OR") THEN "West Coast"
    ELSE IF infile("Southwest", file) \/ startswith(file, "SW-") THEN "Southwest"
    ELSE IF infile("Midwest", file) THEN "Midwest"
    ELSE IF infile("Northeast", file) THEN "Northeast"
    ELSE IF infile("Appalachia", file) THEN "Appalachia"
    ELSE IF infile("MTN", file) THEN "Mountain West"
    ELSE IF infile("AK-HI", file) THEN "Alaska & Hawaii"
    ELSE NoRegion

WithRegion(state_entry, file) ==
    IF FileRegion(file) = NoRegion
        THEN state_entry
        ELSE [state_entry EXCEPT !.region = FileRegion(file)]

\* line 139: state_data[state_name], the position of the entry of that key
\* (0: the key is new and the defaultdict inserts the default entry)
LookupNever(sd, state_name) == 0

Lookup(sd, state_name) ==
    IF \E i \in DOMAIN sd : sd[i].key = state_name
        THEN CHOOSE i \in DOMAIN sd : sd[i].key = state_name
        ELSE 0

\* lines 128-206: the body of the row loop for one row.  raised: the column
\* loop raised, which ends the file (lines 208-210) with the entry left as
\* the columns before the failing one wrote it, its score and region not
\* updated.
ProcessRow(sd, file, columns, state_col, row) ==
    LET state_name == StateName(row[state_col])
    IN  IF IsSkipped(state_name) THEN [sd |-> sd, raised |-> FALSE]
        ELSE
            LET i == Lookup(sd, state_name)
                sd1 == IF i = 0
                          THEN Append(sd, [key |-> state_name, val |-> DefaultEntry])
                          ELSE sd
                k == IF i = 0 THEN Len(sd1) ELSE i
                m == MapColumns([sd1[k].val EXCEPT !.state = state_name],
                                columns, row, 1)
            IN  IF m.raised
                    THEN [sd |-> [sd1 EXCEPT ![k].val = m.entry], raised |-> TRUE]
                    ELSE [sd |-> [sd1 EXCEPT ![k].val =
                                    WithRegion(WithAvailability(m.entry), file)],
                          raised |-> FALSE]

\* lines 216-228
state_abbrev ==
    (<<"Alabama">> :> "AL")
    @@ (<<"Alaska">> :> "AK")
    @@ (<<"Arizona">> :> "AZ")
    @@ (<<"Arkansas">> :> "AR")
    @@ (<<"California">> :> "CA")
    @@ (<<"Colorado">> :> "CO")
    @@ (<<"Connecticut">> :> "CT")
    @@ (<<"Delaware">> :> "DE")
    @@ (<<"Florida">> :> "FL")
    @@ (<<"Georgia">> :> "GA")
    @@ (<<"Hawaii">> :> "HI")
    @@ (<<"Idaho">> :> "ID")
    @@ (<<"Illinois">> :> "IL")
    @@ (<<"Indiana">> :> "IN")
    @@ (<<"Iowa">> :> "IA")
    @@ (<<"Kansas">> :> "KS")
    @@ (<<"Kentucky">> :> "KY")
    @@ (<<"Louisiana">> :> "LA")
    @@ (<<"Maine">> :> "ME")
    @@ (<<"Maryland">> :> "MD")
    @@ (<<"Massachusetts">> :> "MA")
    @@ (<<"Michigan">> :> "MI")
    @@ (<<"Minnesota">> :> "MN")
    @@ (<<"Mississippi">> :> "MS")
    @@ (<<"Missouri">> :> "MO")
    @@ (<<"Montana">> :> "MT")
    @@ (<<"Nebraska">> :> "NE")
    @@ (<<"Nevada">> :> "NV")
    @@ (<<"New", WS, "Hampshire">> :> "NH")
    @@ (<<"New", WS, "Jersey">> :> "NJ")
    @@ (<<"New", WS, "Mexico">> :> "NM")
    @@ (<<"New", WS, "York">> :> "NY")
    @@ (<<"North", WS, "Carolina">> :> "NC")
    @@ (<<"North", WS, "Dakota">> :> "ND")
    @@ (<<"Ohio">> :> "OH")
    @@ (<<"Oklahoma">> :> "OK")
    @@ (<<"Oregon">> :> "OR")
    @@ (<<"Pennsylvania">> :> "PA")
    @@ (<<"Rhode", WS, "Island">> :> "RI")
    @@ (<<"South", WS, "Carolina">> :> "SC")
    @@ (<<"South", WS, "Dakota">> :> "SD")
    @@ (<<"Tennessee">> :> "TN")
    @@ (<<"Texas">> :> "TX")
    @@ (<<"Utah">> :> "UT")
    @@ (<<"Vermont">> :> "VT")
    @@ (<<"Virginia">> :> "VA")
    @@ (<<"Washington">> :> "WA")
    @@ (<<"West", WS, "Virginia">> :> "WV")
    @@ (<<"Wisconsin">> :> "WI")
    @@ (<<"Wyoming">> :> "WY")
    @@ (<<"District", WS, "of", WS, "Columbia">> :> "DC")
    @@ (<<"Puerto", WS, "Rico">> :> "PR")

NoCode == "NaN"

\* line 230: Series.map leaves NaN where the name is no key of state_abbrev
StateCode(name) == IF name \in DOMAIN state_abbrev THEN state_abbrev[name] ELSE NoCode

\* lines 213-230: the DataFrame of the entries, with the state_code column
df_final(sd) ==
    [i \in DOMAIN sd |-> sd[i].val @@ ("state_code" :> StateCode(sd[i].val.state))]

\* line 230: df_final['state'] is a KeyError when the DataFrame was built from
\* no entry at all (pd.DataFrame([]) has no columns)
FinalRaises(sd) == sd = <<>>

-----------------------------------------------------------------------------
(* The presentation: filters and aggregates *)

\* st.session_state.selected_state = None
None == <<>>

\* line 391
data_type_options ==
    <<"All", "Vulnerable Protections", "Equity Initiatives", "Civil Rights",
      "Language Access", "Disability Provisions", "Emergency Powers">>

\* lines 245-252
field_mapping ==
    [vulnerable_protections |-> "vulnerable_protections",
     equity_initiatives |-> "equity_initiatives",
     civil_rights |-> "civil_rights",
     language_access |-> "language_access",
     disability_provisions |-> "disability_needs",
     emergency_powers |-> "emergency_declaration"]

\* lines 243-257
has_specific_data_type_nostrip(state_row, data_type) ==
    IF data_type \in DOMAIN field_mapping
            /\ field_mapping[data_type] \in DOMAIN state_row
        THEN LET v == state_row[field_mapping[data_type]]
             IN  truthy(v) /\ v # <<"nan">>
        ELSE FALSE

has_specific_data_type(state_row, data_type) ==
    IF data_type \in DOMAIN field_mapping
            /\ field_mapping[data_type] \in DOMAIN state_row
        THEN LET v == state_row[field_mapping[data_type]]
             IN  truthy(v) /\ truthy(strip(v)) /\ v # <<"nan">>
        ELSE FALSE

\* lines 279-291: the row test of the data-type filter
KeepsDataType(state_row, data_type_filter) ==
    IF data_type_filter = "All" THEN TRUE
    ELSE IF data_type_filter = "Vulnerable Protections"
        THEN has_specific_data_type(state_row, "vulnerable_protections")
    ELSE IF data_type_filter = "Equity Initiatives"
        THEN has_specific_data_type(state_row, "equity_initiatives")
    ELSE IF data_type_filter = "Civil Rights"
        THEN has_specific_data_type(state_row, "civil_rights")
    ELSE IF data_type_filter = "Language Access"
        THEN has_specific_data_type(state_row, "language_access")
    ELSE IF data_type_filter = "Disability Provisions"
        THEN has_specific_data_type(state_row, "disability_provisions")
    ELSE IF data_type_filter = "Emergency Powers"
        THEN has_specific_data_type(state_row, "emergency_powers")
    ELSE TRUE

\* lines 293-294: the row test of the region filter
KeepsRegion(state_row, region_filter) ==
    region_filter = "All" \/ state_row.region = region_filter

\* lines 276-294
ApplyFilters(table, data_type_filter, region_filter) ==
    SelectSeq(table, LAMBDA state_row :
                        /\ KeepsDataType(state_row, data_type_filter)
                        /\ KeepsRegion(state_row, region_filter))

\* line 416: the names left out of the "US States" count
NotStates ==
    {<<"District", WS, "of", WS, "Columbia">>, <<"Puerto", WS, "Rico">>,
     <<"Guam">>, <<"U.S.", WS, "Virgin", WS, "Islands">>,
     <<"American", WS, "Samoa">>, <<"Northern", WS, "Mariana", WS, "Islands">>}

\* lines 416-417
CountUSStates(view) ==
    Len(SelectSeq(view, LAMBDA state_row : state_row.state \notin NotStates))

\* line 403
region_options(table) == {"All"} \cup {table[i].region : i \in DOMAIN table}

\* line 342: df[df['state_code'] == clicked_state_code]['state'].iloc[0]
ClickedStateByPosition(table, view, k) == table[k].state

ClickedState(table, view, k) ==
    LET hits == SelectSeq(table, LAMBDA state_row :
                                    state_row.state_code = view[k].state_code)
    IN  hits[1].state

-----------------------------------------------------------------------------
(* Inputs of the model: file names, sheets and rows *)

FileNames ==
    {<<"Midwest", "-states.xlsx">>,
     <<"CA-WA-OR", "-", "Midwest", ".xlsx">>,
     <<"notes.xlsx">>}

Unreadable == <<>>

\* df.columns of the sheets pd.read_excel returns; Unreadable: it raises
Sheets ==
    {Unreadable,
     <<Hdr(<<"State">>), Hdr(<<"Mitigation", WS, "Planning">>)>>,
     <<Hdr(<<"Jurisdiction">>), Hdr(<<"Equity", WS, "Programs">>)>>,
     <<Hdr(<<"Jurisdiction">>), Hdr(<<"Equity", WS, "Programs">>), NumHdr>>,
     <<NumHdr, Hdr(<<"State">>)>>,
     <<Hdr(<<"Notes">>)>>}

StateCells ==
    {NaN, Txt(<<WS>>), Txt(<<"Aspect">>), Txt(<<WS, "Iowa,", WS, "etc.", WS>>),
     Txt(<<"Iowa">>), Txt(<<"Ohio">>)}

TopicCells ==
    {NaN, Txt(EmptyStr), Txt(<<WS>>), Txt(<<"nan">>), Txt(<<"X">>)}

OtherCells == {Txt(<<"X">>)}

CellsFor(col) ==
    IF ~col.isstr THEN OtherCells
    ELSE IF IsStateHeader(col) THEN StateCells
    ELSE IF Classify(lower(col.s)) # NoField THEN TopicCells
    ELSE OtherCells

RECURSIVE RowsFrom(_, _)
RowsFrom(columns, i) ==
    IF i > Len(columns) THEN {<<>>}
    ELSE {<<c>> \o r : c \in CellsFor(columns[i]), r \in RowsFrom(columns, i + 1)}

\* the rows a sheet of these columns may hold
RowsOf == [columns \in Sheets |-> RowsFrom(columns, 1)]

\* the orders in which glob.glob may list the files of the directory
Orders(S) == {o \in [1..Cardinality(S) -> S] : Range(o) = S}

-----------------------------------------------------------------------------
(* History of the run, read by the properties only *)

\* the topic fields for which the row brings no text: every cell of a column
\* of that topic is missing, "" or "nan" (hist.blank holds them for a row that
\* was merged, and is empty for a row that was discarded)
BlankTopics(columns, row) ==
    Range(data_fields) \
        {Classify(lower(columns[i].s)) :
            i \in {j \in DOMAIN columns :
                     /\ columns[j].isstr
                     /\ ~(row[j].na \/ row[j].s = EmptyStr \/ row[j].s = <<"nan">>)}}

\* the names a row is discarded for
DiscardedName(name) ==
    name \in {EmptyStr, <<"nan">>, <<"Approach">>, <<"Aspect">>,
              <<"Impact", WS, "Area">>, <<"Protection", WS, "Area">>, <<"Region">>}

NoHist ==
    [op |-> "none", cell |-> NaN, blank |-> {}, existed |-> FALSE,
     clicked |-> EmptyStr]

-----------------------------------------------------------------------------
(* The script run: load_and_process_data *)

Init ==
    /\ disk = {}
    /\ cached = FALSE
    /\ cache = <<>>
    /\ pc = "idle"
    /\ excel_files = <<>>
    /\ cols = <<>>
    /\ rowsLeft = 0
    /\ budget = 0
    /\ state_data = <<>>
    /\ df = <<>>
    /\ selected_state = EmptyStr
    /\ filter_data_type = "All"
    /\ filter_region = "All"
    /\ filtered_df = <<>>
    /\ total_states = 0
    /\ hist = NoHist @@ [globbed |-> {}, lastfile |-> <<>>]

Resting == pc \in {"idle", "ready", "failed"}

\* lines 276-294, 414-419: the part of a script run after the load, for the
\* table the load returned
Render(table, data_type_filter, region_filter) ==
    /\ filtered_df' = ApplyFilters(table, data_type_filter, region_filter)
    /\ total_states' =
            CountUSStates(ApplyFilters(table, data_type_filter, region_filter))

\* a file appears in the working directory between two script runs
AddFile ==
    /\ Resting
    /\ Cardinality(disk) < MaxFiles
    /\ \E file \in FileNames \ disk : disk' = disk \cup {file}
    /\ hist' = [hist EXCEPT !.op = "fs"]
    /\ UNCHANGED <<cached, cache, pc, ingestVars, df, sessionVars, viewVars>>

\* a file disappears from the working directory between two script runs
RemoveFile ==
    /\ Resting
    /\ \E file \in disk : disk' = disk \ {file}
    /\ hist' = [hist EXCEPT !.op = "fs"]
    /\ UNCHANGED <<cached, cache, pc, ingestVars, df, sessionVars, viewVars>>

\* lines 80, 270: st.cache_data has a result for the call (the function has
\* no argument, so one entry serves every call): the body is not run
CacheHit ==
    /\ Resting
    /\ cached
    /\ df' = cache
    /\ Render(cache, filter_data_type, filter_region)
    /\ pc' = "ready"
    /\ hist' = [hist EXCEPT !.op = "load"]
    /\ UNCHANGED <<disk, cached, cache, ingestVars, sessionVars>>

\* lines 80-110, 270: no cached result: the body runs, starting with the glob
StartLoad ==
    /\ Resting
    /\ ~cached
    /\ \E order \in Orders(disk) : excel_files' = order
    /\ cols' = <<>>
    /\ rowsLeft' = 0
    /\ budget' = MaxRows
    /\ state_data' = <<>>
    /\ df' = <<>>
    /\ pc' = "files"
    /\ hist' = NoHist @@ [globbed |-> disk, lastfile |-> <<>>]
    /\ UNCHANGED <<disk, cached, cache, sessionVars, viewVars>>

\* lines 113-126, 208-210: a file the loop leaves without reading a row:
\* read_excel raises, the state column search raises, or there is no state
\* column
SkipFile ==
    /\ pc = "files"
    /\ excel_files # <<>>
    /\ \E sheet \in Sheets :
        \/ sheet = Unreadable
        \/ FindStateCol(sheet, 1) = Raises
        \/ FindStateCol(sheet, 1) = 0
    /\ excel_files' = Tail(excel_files)
    /\ UNCHANGED <<disk, cached, cache, pc, cols, rowsLeft, budget,
                   state_data, df, sessionVars, viewVars, hist>>

\* lines 113-127: a file with a state column, of n rows
OpenFile ==
    /\ pc = "files"
    /\ excel_files # <<>>
    /\ \E sheet \in Sheets \ {Unreadable}, n \in 0..budget :
        /\ FindStateCol(sheet, 1) > 0
        /\ budget' = budget - n
        /\ IF n = 0
              THEN /\ excel_files' = Tail(excel_files)
                   /\ UNCHANGED <<pc, cols, rowsLeft>>
              ELSE /\ pc' = "rows"
                   /\ cols' = sheet
                   /\ rowsLeft' = n
                   /\ UNCHANGED excel_files
    /\ UNCHANGED <<disk, cached, cache, state_data, df, sessionVars, viewVars,
                   hist>>

\* lines 127-210: one iteration of the row loop; an exception ends the file
RowStep ==
    /\ pc = "rows"
    /\ \E row \in RowsOf[cols] :
        LET file == Head(excel_files)
            state_col == FindStateCol(cols, 1)
            r == ProcessRow(state_data, file, cols, state_col, row)
            name == StateName(row[state_col])
        IN  /\ state_data' = r.sd
            /\ IF r.raised \/ rowsLeft = 1
                  THEN /\ pc' = "files"
                       /\ excel_files' = Tail(excel_files)
                       /\ cols' = <<>>
                       /\ rowsLeft' = 0
                  ELSE /\ rowsLeft' = rowsLeft - 1
                       /\ UNCHANGED <<pc, excel_files, cols>>
            /\ hist' = [hist EXCEPT
                          !.op = "row",
                          !.cell = row[state_col],
                          !.blank = IF DiscardedName(name) THEN {}
                                    ELSE BlankTopics(cols, row),
                          !.existed = \E i \in DOMAIN state_data :
                                          state_data[i].key = name,
                          !.lastfile =
                              IF ~DiscardedName(name) /\ FileRegion(file) # NoRegion
                                 THEN (name :> file) @@ hist.lastfile
                                 ELSE hist.lastfile]
    /\ UNCHANGED <<disk, cached, cache, budget, df, sessionVars, viewVars>>

\* lines 212-232, 80: the loop is over; the table is built, returned and
\* cached, unless building it raises (an exception is not cached)
FinishLoad ==
    /\ pc = "files"
    /\ excel_files = <<>>
    /\ IF FinalRaises(state_data)
          THEN /\ pc' = "failed"
               /\ df' = <<>>
               /\ UNCHANGED <<cached, cache, viewVars>>
          ELSE /\ pc' = "ready"
               /\ df' = df_final(state_data)
               /\ cache' = df_final(state_data)
               /\ cached' = TRUE
               /\ Render(df_final(state_data), filter_data_type, filter_region)
    /\ budget' = 0
    /\ state_data' = <<>>
    /\ hist' = [hist EXCEPT !.op = "load", !.cell = NaN, !.blank = {},
                            !.existed = FALSE]
    /\ UNCHANGED <<disk, excel_files, cols, rowsLeft, sessionVars>>

Next ==
    \/ AddFile
    \/ RemoveFile
    \/ CacheHit
    \/ StartLoad
    \/ SkipFile
    \/ OpenFile
    \/ RowStep
    \/ FinishLoad

Spec == Init /\ [][Next]_vars

-----------------------------------------------------------------------------
(* The whole ingestion as a function of the files, for the session below *)

\* lines 127-210: the row loop of one file, which an exception ends
RECURSIVE IngestRows(_, _, _, _)
IngestRows(sd, file, columns, rows) ==
    IF rows = <<>> THEN sd
    ELSE LET r == ProcessRow(sd, file, columns, FindStateCol(columns, 1), Head(rows))
         IN  IF r.raised THEN r.sd
             ELSE IngestRows(r.sd, file, columns, Tail(rows))

\* lines 113-210: the file loop; a file is [name, sheet, rows]
RECURSIVE IngestFiles(_, _)
IngestFiles(sd, files) ==
    IF files = <<>> THEN sd
    ELSE LET f == Head(files)
         IN  IngestFiles(IF f.sheet = Unreadable \/ FindStateCol(f.sheet, 1) <= 0
                             THEN sd
                             ELSE IngestRows(sd, f.name, f.sheet, f.rows),
                         Tail(files))

\* the sheets and rows of the directories a session is started on: every
\* file of FileNames is there, with no row or one row
ViewSheets ==
    {<<Hdr(<<"State">>), Hdr(<<"Civil", WS, "Rights">>)>>,
     <<Hdr(<<"Jurisdiction">>), Hdr(<<"Disability", WS, "Needs">>)>>}

ViewRows ==
    {<<n, c>> : n \in {Txt(<<"Iowa">>), Txt(<<"District", WS, "of", WS, "Columbia">>),
                       Txt(<<"Total">>)},
                c \in {Txt(<<"X">>), Txt(<<WS>>)}}

ViewFiles(name) ==
    {[name |-> name, sheet |-> <<Hdr(<<"State">>)>>, rows |-> <<>>]}
    \cup {[name |-> name, sheet |-> s, rows |-> <<r>>] : s \in ViewSheets, r \in ViewRows}

ViewDirs ==
    {<<a, b, c>> : a \in ViewFiles(<<"Midwest", "-states.xlsx">>),
                   b \in ViewFiles(<<"CA-WA-OR", "-", "Midwest", ".xlsx">>),
                   c \in ViewFiles(<<"notes.xlsx">>)}

-----------------------------------------------------------------------------
(* The session: the script has run once and the user acts on the page *)

InitSession ==
    /\ disk = FileNames
    /\ \E files \in ViewDirs :
        /\ ~FinalRaises(IngestFiles(<<>>, files))
        /\ cache = df_final(IngestFiles(<<>>, files))
    /\ cached = TRUE
    /\ df = cache
    /\ pc = "ready"
    /\ excel_files = <<>>
    /\ cols = <<>>
    /\ rowsLeft = 0
    /\ budget = 0
    /\ state_data = <<>>
    /\ selected_state = None
    /\ filter_data_type = "All"
    /\ filter_region = "All"
    /\ filtered_df = ApplyFilters(cache, "All", "All")
    /\ total_states = CountUSStates(ApplyFilters(cache, "All", "All"))
    /\ hist = NoHist @@ [globbed |-> FileNames, lastfile |-> <<>>]

\* lines 392-400: another data type is chosen; the script reruns (the load is
\* a cache hit)
SetDataType ==
    /\ pc = "ready"
    /\ \E data_type_filter \in Range(data_type_options) :
        /\ data_type_filter # filter_data_type
        /\ filter_data_type' = data_type_filter
        /\ Render(cache, data_type_filter, filter_region)
    /\ df' = cache
    /\ UNCHANGED <<disk, cached, cache, pc, ingestVars, selected_state,
                   filter_region, hist>>

\* lines 403-412: another region is chosen; the script reruns
SetRegion ==
    /\ pc = "ready"
    /\ \E region_filter \in region_options(df) :
        /\ region_filter # filter_region
        /\ filter_region' = region_filter
        /\ Render(cache, filter_data_type, region_filter)
    /\ df' = cache
    /\ UNCHANGED <<disk, cached, cache, pc, ingestVars, selected_state,
                   filter_data_type, hist>>

\* lines 337-343: a click on the k-th record of the map, which shows the
\* filtered view; the script reruns and takes the selection from the event
MapClick ==
    /\ pc = "ready"
    /\ filtered_df # <<>>
    /\ \E k \in DOMAIN filtered_df :
        /\ filtered_df[k].state_code # NoCode
        /\ selected_state' = ClickedState(cache, filtered_df, k)
        /\ hist' = [hist EXCEPT !.clicked = filtered_df[k].state]
    /\ df' = cache
    /\ Render(cache, filter_data_type, filter_region)
    /\ UNCHANGED <<disk, cached, cache, pc, ingestVars, filter_data_type,
                   filter_region>>

NextSession ==
    \/ SetDataType
    \/ SetRegion
    \/ MapClick

SpecSession == InitSession /\ [][NextSession]_vars

-----------------------------------------------------------------------------
(* Properties of the ingestion *)

\* the entries of a table under construction
Entries == {state_data[i].val : i \in DOMAIN state_data}

\* the records of the table the script holds
Records == {df[i] : i \in DOMAIN df}

\* a topic field holds data: a text other than whitespace, and not "nan"
HoldsData(v) == strip(v) # EmptyStr /\ v # <<"nan">>

FieldsWithData(rec) == {f \in Range(data_fields) : HoldsData(rec[f])}

\* C1: in every table load_and_process_data returns, also after a file that
\* raised and was skipped, the coverage score of each record is the number
\* of its topic fields that hold data, divided by 11.
C1_CoverageNeverStale ==
    pc = "ready" =>
        \A rec \in Records :
            FracEq(rec.data_availability, Frac(Cardinality(FieldsWithData(rec)), 11))

\* C2: the table a load returns is the one built from the files that are in
\* the directory at that load.
C2_LoadFollowsFileSet ==
    (pc = "ready" /\ hist.op = "load") => hist.globbed = disk

\* C3: no run of load_and_process_data ends in an error, whatever the files.
C3_LoadAlwaysReturns == pc # "failed"

\* C4: no two records of the table, under construction or returned, have the
\* same jurisdiction name.
C4_OneRecordPerName ==
    /\ \A i, j \in DOMAIN state_data :
          i # j => state_data[i].val.state # state_data[j].val.state
    /\ \A i, j \in DOMAIN df : i # j => df[i].state # df[j].state

\* a row with the label "Iowa, etc." (padded) was merged into the record
\* Iowa, which rows of two different sheets have filled
C4_Witness ==
    /\ hist.op = "row"
    /\ hist.existed
    /\ hist.cell = Txt(<<WS, "Iowa,", WS, "etc.", WS>>)
    /\ Len(state_data) = 1
    /\ state_data[1].val.state = <<"Iowa">>
    /\ state_data[1].val.mitigation_planning # EmptyStr
    /\ state_data[1].val.equity_initiatives # EmptyStr

\* C5: a row whose cells for a topic are all missing, "" or "nan" leaves
\* every non-empty field of that topic, in every record, as it was.
C5_EmptyNeverErases ==
    [][pc = "rows" =>
        \A i \in DOMAIN state_data : \A f \in Range(data_fields) :
            (state_data[i].val[f] # EmptyStr /\ f \in hist'.blank)
                => state_data'[i].val[f] = state_data[i].val[f]]_vars

\* a second row for a record whose mitigation_planning is "X" had no text for
\* that topic, and the field is still "X"
C5_Witness ==
    /\ hist.op = "row"
    /\ hist.existed
    /\ "mitigation_planning" \in hist.blank
    /\ \E e \in Entries :
        /\ e.state = StateName(hist.cell)
        /\ e.mitigation_planning = <<"X">>

\* C6: the region of each returned record is the region of the last file
\* that classifies to a specific region and had a row for the jurisdiction
\* that was not discarded, and "Unknown" when there is no such file.
C6_RegionOfLastSpecificFile ==
    pc = "ready" =>
        \A rec \in Records :
            rec.region = IF rec.state \in DOMAIN hist.lastfile
                            THEN FileRegion(hist.lastfile[rec.state])
                            ELSE "Unknown"

\* C9: a row whose jurisdiction name, trimmed and mapped, is empty, "nan" or
\* a header-leakage string changes nothing of the table.
C9_DiscardedRowNoEffect ==
    [][(pc = "rows" /\ DiscardedName(StateName(hist'.cell)))
        => (state_data' = state_data /\ df' = df /\ cache' = cache)]_vars

\* a row "Aspect" was processed while the table had a record
C9_Witness ==
    /\ hist.op = "row"
    /\ hist.cell = Txt(<<"Aspect">>)
    /\ state_data # <<>>
    /\ \E e \in Entries : e.mitigation_planning = <<"X">> /\ e.region = "Midwest"

\* C11: no row merged during ingestion lowers the coverage score of a
\* record: for every record of the table under construction, the score
\* after the row is greater than or equal to the score before it.
C11_ScoreNeverDecreases ==
    [][pc = "rows" =>
        \A i \in DOMAIN state_data :
            state_data[i].val.data_availability.num
                    * state_data'[i].val.data_availability.den
                <= state_data'[i].val.data_availability.num
                    * state_data[i].val.data_availability.den]_vars

-----------------------------------------------------------------------------
(* Properties of the presentation *)

\* the topic field each data-type filter stands for
FilterField ==
    ("Vulnerable Protections" :> "vulnerable_protections")
    @@ ("Equity Initiatives" :> "equity_initiatives")
    @@ ("Civil Rights" :> "civil_rights")
    @@ ("Language Access" :> "language_access")
    @@ ("Disability Provisions" :> "disability_needs")
    @@ ("Emergency Powers" :> "emergency_declaration")

\* C7, as stated: the filtered view is exactly the records whose field for
\* the data-type filter is non-empty and not "nan" (when that filter is not
\* All) and whose region is the region filter (when that filter is not All).
C7_ViewIsNonEmptyFields ==
    pc = "ready" =>
        filtered_df =
            SelectSeq(df, LAMBDA rec :
                /\ filter_data_type # "All" =>
                      /\ rec[FilterField[filter_data_type]] # EmptyStr
                      /\ rec[FilterField[filter_data_type]] # <<"nan">>
                /\ filter_region # "All" => rec.region = filter_region)

\* C7, amended: the filtered view is exactly the records whose field for the
\* data-type filter holds a text other than whitespace and not "nan" (when
\* that filter is not All) and whose region is the region filter (when that
\* filter is not All).
C7_ViewIsFieldsWithData ==
    pc = "ready" =>
        filtered_df =
            SelectSeq(df, LAMBDA rec :
                /\ filter_data_type # "All" =>
                      HoldsData(rec[FilterField[filter_data_type]])
                /\ filter_region # "All" => rec.region = filter_region)

\* both filters are active on a table of three regions: one record is kept,
\* one with civil-rights data is dropped for its region, one has a
\* whitespace-only civil_rights field
C7_Witness ==
    /\ filter_data_type = "Civil Rights"
    /\ filter_region = "Midwest"
    /\ Len(df) = 3
    /\ Len(filtered_df) = 1
    /\ \E rec \in Records : rec.civil_rights = <<"X">> /\ rec.region = "West Coast"
    /\ \E rec \in Records : rec.civil_rights = <<WS>>

FiftyStates ==
    DOMAIN state_abbrev
        \ {<<"District", WS, "of", WS, "Columbia">>, <<"Puerto", WS, "Rico">>}

\* C8: the "US States" metric is the number of records of the filtered view
\* whose name is one of the fifty states.
C8_USStatesAreTheFifty ==
    pc = "ready" =>
        total_states =
            Len(SelectSeq(filtered_df, LAMBDA rec : rec.state \in FiftyStates))

\* C10: a step that changes a filter changes neither the table nor the
\* selection; a click sets the selection to the name of the clicked record
\* and changes neither filter nor the table.
C10_SessionFrame ==
    [][/\ (filter_data_type' # filter_data_type \/ filter_region' # filter_region)
            => (df' = df /\ cache' = cache /\ selected_state' = selected_state)
       /\ (selected_state' # selected_state \/ hist'.clicked # hist.clicked)
            => /\ selected_state' = hist'.clicked
               /\ filter_data_type' = filter_data_type
               /\ filter_region' = filter_region
               /\ df' = df
               /\ cache' = cache]_vars

\* Iowa was clicked and a region filter chosen later leaves Iowa out of the
\* filtered view: the selection is still Iowa
C10_Witness ==
    /\ selected_state = <<"Iowa">>
    /\ hist.clicked = <<"Iowa">>
    /\ filter_region # "All"
    /\ filtered_df # <<>>
    /\ \E rec \in Records : rec.state = <<"Iowa">>
    /\ \A k \in DOMAIN filtered_df : filtered_df[k].state # <<"Iowa">>

====
